---- MODULE Spec2Model ----
(***************************************************************************)
(* NFL-Betting-Advisor: the parlay evaluation pipeline.                    *)
(*                                                                         *)
(* Python floats are modelled as rationals <<num, den>> in lowest terms    *)
(* with den > 0; None is the empty tuple.  Arithmetic is exact while the   *)
(* denominator stays within FloatPrecision and rounds to that resolution   *)
(* beyond it, as a double rounds to its mantissa.  Where the code          *)
(* truncates a float to an int (decimal_to_american) the rounding error is *)
(* modelled as a choice between the two integers the truncation can give.  *)
(***************************************************************************)
EXTENDS Integers, Sequences, FiniteSets, TLC

(* ------------------------------------------------------------------ *)
(* Float arithmetic                                                    *)
(* ------------------------------------------------------------------ *)
None == <<>>

FloatPrecision == 10000

Abs(x) == IF x < 0 THEN -x ELSE x

RECURSIVE Gcd(_, _)
Gcd(a, b) == IF b = 0 THEN a ELSE Gcd(b, a % b)

(* the exact rational n/d *)
Rat(n, d) ==
    LET s == IF d < 0 THEN -1 ELSE 1
        g == Gcd(Abs(n), Abs(d))
    IN  <<(s * n) \div g, (s * d) \div g>>

RoundDiv(n, k) == IF n >= 0 THEN (n + k \div 2) \div k ELSE -((-n + k \div 2) \div k)

(* the float nearest n/d, for d > 0 *)
Float(n, d) ==
    LET r == Rat(n, d)
        k == r[2] \div FloatPrecision
    IN  IF k <= 1 THEN r ELSE Rat(RoundDiv(r[1], k), r[2] \div k)

RInt(n) == <<n, 1>>
RNeg(a) == <<-a[1], a[2]>>
RAdd(a, b) ==
    LET g == Gcd(a[2], b[2])
    IN  Float(a[1] * (b[2] \div g) + b[1] * (a[2] \div g), (a[2] \div g) * b[2])
RSub(a, b) == RAdd(a, RNeg(b))
RMul(a, b) ==
    LET g1 == Gcd(Abs(a[1]), b[2])
        g2 == Gcd(Abs(b[1]), a[2])
    IN  Float((a[1] \div g1) * (b[1] \div g2), (a[2] \div g2) * (b[2] \div g1))
RInv(a) == IF a[1] < 0 THEN <<-a[2], -a[1]>> ELSE <<a[2], a[1]>>
RDiv(a, b) == RMul(a, RInv(b))
RLt(a, b) == a[1] * b[2] < b[1] * a[2]
RLe(a, b) == a[1] * b[2] <= b[1] * a[2]
RMax(a, b) == IF RLt(a, b) THEN b ELSE a
RMin(a, b) == IF RLt(b, a) THEN b ELSE a
RAbs(a) == <<Abs(a[1]), a[2]>>

(* int(x) of a float x: truncation toward zero *)
Trunc(a) == IF a[1] >= 0 THEN a[1] \div a[2] ELSE -((-a[1]) \div a[2])

(* f"{x:.2f}": x rounded to hundredths, kept as the integer 100*x *)
Hundredths(a) ==
    LET t == RAdd(RMul(RAbs(a), RInt(100)), Rat(1, 2))
        h == t[1] \div t[2]
    IN  IF a[1] >= 0 THEN h ELSE -h

(* Python truthiness of an Optional[float]: None and 0.0 are falsy *)
PyOr(x, y) == IF x = None \/ x[1] = 0 THEN y ELSE x

(* ------------------------------------------------------------------ *)
(* utils.py                                                            *)
(* ------------------------------------------------------------------ *)
(* the raised exception, as a value no float equals *)
ValueError == <<"ValueError">>

american_to_decimal(odds) ==
    IF odds = 0 THEN ValueError
    ELSE IF odds > 0 THEN RAdd(Rat(odds, 100), RInt(1))
    ELSE RAdd(Rat(100, Abs(odds)), RInt(1))

(* int() of a float product or quotient whose exact value is an integer k  *)
(* can see k or the integer next to it toward zero, depending on the       *)
(* rounding of the intermediate doubles; otherwise it is the truncation.   *)
FloatToInt(x) ==
    IF x[2] = 1 /\ x[1] # 0
    THEN {x[1], IF x[1] > 0 THEN x[1] - 1 ELSE x[1] + 1}
    ELSE {Trunc(x)}

(* decimal_to_american with "decimal > 2" for the positive branch *)
decimal_to_american_strict(decimal) ==
    IF RLe(decimal, RInt(1)) THEN {}
    ELSE IF RLt(RInt(2), decimal)
         THEN FloatToInt(RMul(RSub(decimal, RInt(1)), RInt(100)))
         ELSE FloatToInt(RDiv(RInt(-100), RSub(decimal, RInt(1))))

(* the set of ints decimal_to_american can return; {} when it raises *)
decimal_to_american(decimal) ==
    IF RLe(decimal, RInt(1)) THEN {}
    ELSE IF RLe(RInt(2), decimal)
         THEN FloatToInt(RMul(RSub(decimal, RInt(1)), RInt(100)))
         ELSE FloatToInt(RDiv(RInt(-100), RSub(decimal, RInt(1))))

(* expected_value paying the gross return: decimal_odds instead of decimal_odds - 1 *)
expected_value_gross(probability, decimal_odds, stake) ==
    RSub(RMul(RMul(probability, decimal_odds), stake),
         RMul(RSub(RInt(1), probability), stake))

expected_value(probability, decimal_odds, stake) ==
    RSub(RMul(RMul(probability, RSub(decimal_odds, RInt(1))), stake),
         RMul(RSub(RInt(1), probability), stake))

Clamp(x) == RMin(RMax(x, Rat(1, 100)), Rat(99, 100))

(* ------------------------------------------------------------------ *)
(* models.py                                                           *)
(* ------------------------------------------------------------------ *)
NoTeam == "None"
NoName == "None"

Player(name, team, position) == <<name, team, position>>

BetLeg(leg_id, odds, team, baseline, player_name, opponent_team) ==
    [leg_id |-> leg_id, odds_american |-> odds, team |-> team, player |-> None,
     baseline_probability |-> baseline, adjusted_probability |-> None,
     notes |-> <<>>, player_name |-> player_name, opponent_team |-> opponent_team]

(* implied_probability with "odds >= 0" and no guard: odds 0 gives 1.0 *)
implied_probability_unguarded(leg) ==
    LET odds == leg.odds_american
    IN  IF odds >= 0 THEN Rat(100, odds + 100) ELSE Rat(-odds, -odds + 100)

implied_probability(leg) ==
    LET odds == leg.odds_american
    IN  IF odds = 0 THEN ValueError
        ELSE IF odds > 0 THEN Rat(100, odds + 100)
        ELSE Rat(-odds, -odds + 100)

RECURSIVE ProbProduct(_, _)
ProbProduct(ls, i) ==
    IF i > Len(ls) THEN RInt(1)
    ELSE RMul(ls[i].adjusted_probability, ProbProduct(ls, i + 1))

(* combined_probability skipping the legs whose adjusted probability is unset *)
combined_probability_skipping(ls) ==
    ProbProduct([i \in 1..Len(ls) |->
                   IF ls[i].adjusted_probability = None
                   THEN [ls[i] EXCEPT !.adjusted_probability = RInt(1)]
                   ELSE ls[i]], 1)

combined_probability(ls) ==
    IF \E i \in 1..Len(ls) : ls[i].adjusted_probability = None THEN None
    ELSE ProbProduct(ls, 1)

RECURSIVE OddsProduct(_, _)
OddsProduct(ls, i) ==
    IF i > Len(ls) THEN RInt(1)
    ELSE RMul(RDiv(RInt(1), implied_probability(ls[i])), OddsProduct(ls, i + 1))

combined_decimal_odds(ls) ==
    IF \E i \in 1..Len(ls) : implied_probability(ls[i]) = ValueError THEN ValueError
    ELSE OddsProduct(ls, 1)

(* ------------------------------------------------------------------ *)
(* Notes.  A note is its fixed text (kind) and the values formatted     *)
(* into it; names in the model contain none of the scoring keywords.    *)
(* ------------------------------------------------------------------ *)
Note(kind, subject, name, pos, x, y) ==
    [kind |-> kind, subject |-> subject, name |-> name, pos |-> pos, x |-> x, y |-> y]

IsPrefix(s, t) == Len(s) <= Len(t) /\ SubSeq(t, 1, Len(s)) = s

(* ------------------------------------------------------------------ *)
(* analysis/injury_adjuster.py                                         *)
(* ------------------------------------------------------------------ *)
KEY_DEFENSIVE_POSITIONS == {"CB", "DB", "FS", "SS", "S", "LB", "DE", "DT", "EDGE"}
OFFENSIVE_SKILL_POSITIONS == {"QB", "RB", "WR", "TE"}

is_key_defender(injury) == injury.Position \in KEY_DEFENSIVE_POSITIONS
is_offensive_star(injury) == injury.Position \in OFFENSIVE_SKILL_POSITIONS

(* one iteration of the scan without the leg.player tests of the teammate branch *)
InjuryScanStepAnyStar(acc, injury, leg, opponent_team) ==
    IF opponent_team # NoTeam /\ injury.Team # opponent_team THEN acc
    ELSE IF injury.Status \notin {"Out", "Doubtful"} THEN acc
    ELSE IF is_key_defender(injury) /\ leg.player # None /\ leg.player[2] # injury.Team
         THEN [m |-> RAdd(acc.m, Rat(5, 100)),
               adj |-> Append(acc.adj, Note("Opponent missing key defender", "",
                                            injury.Name, injury.Position, 0, 0))]
    ELSE IF is_offensive_star(injury)
         THEN [m |-> RSub(acc.m, Rat(5, 100)),
               adj |-> Append(acc.adj, Note("teammate is out", "",
                                            injury.Name, injury.Position, 0, 0))]
    ELSE acc

(* one iteration of the scan: acc = [m |-> multiplier, adj |-> adjustments] *)
InjuryScanStep(acc, injury, leg, opponent_team) ==
    IF opponent_team # NoTeam /\ injury.Team # opponent_team THEN acc
    ELSE IF injury.Status \notin {"Out", "Doubtful"} THEN acc
    ELSE IF is_key_defender(injury) /\ leg.player # None /\ leg.player[2] # injury.Team
         THEN [m |-> RAdd(acc.m, Rat(5, 100)),
               adj |-> Append(acc.adj, Note("Opponent missing key defender", "",
                                            injury.Name, injury.Position, 0, 0))]
    ELSE IF is_offensive_star(injury) /\ leg.player # None /\ leg.player[2] = injury.Team
         THEN [m |-> RSub(acc.m, Rat(5, 100)),
               adj |-> Append(acc.adj, Note("teammate is out", leg.player[1],
                                            injury.Name, injury.Position, 0, 0))]
    ELSE acc

RECURSIVE InjuryScan(_, _, _, _)
InjuryScan(injuries, n, leg, opponent_team) ==
    IF n = 0 THEN [m |-> RInt(1), adj |-> <<>>]
    ELSE InjuryScanStep(InjuryScan(injuries, n - 1, leg, opponent_team),
                        injuries[n], leg, opponent_team)

(* the return value without the clamp *)
InjuryRetUnclamped(leg, multiplier) == RMul(leg.baseline_probability, multiplier)

(* leg.notes = adjustments instead of leg.notes.extend(adjustments) *)
InjuryNotesReplace(leg, adjustments, multiplier) ==
    Append(adjustments,
           Note("Injury multiplier applied", "", "", "", Hundredths(multiplier), 0))

(* InjuryAdjuster.adjust_leg: [ret |-> None or the probability, notes |-> the leg's notes after] *)
InjuryRet(leg, multiplier) ==
    Clamp(RMul(leg.baseline_probability, multiplier))

InjuryNotes(leg, adjustments, multiplier) ==
    Append(leg.notes \o adjustments,
           Note("Injury multiplier applied", "", "", "", Hundredths(multiplier), 0))

(* adjust_leg extending the notes before the threshold test *)
injury_adjust_leg_notes_first(injuries, leg, opponent_team) ==
    IF leg.baseline_probability = None THEN [ret |-> None, notes |-> leg.notes]
    ELSE LET scan == InjuryScan(injuries, Len(injuries), leg, opponent_team)
             multiplier == RMax(Rat(5, 100), scan.m)
         IN  IF RLt(Rat(1, 1000000), RAbs(RSub(multiplier, RInt(1))))
             THEN [ret |-> InjuryRet(leg, multiplier),
                   notes |-> InjuryNotes(leg, scan.adj, multiplier)]
             ELSE [ret |-> None, notes |-> leg.notes \o scan.adj]

injury_adjust_leg(injuries, leg, opponent_team) ==
    IF leg.baseline_probability = None THEN [ret |-> None, notes |-> leg.notes]
    ELSE LET scan == InjuryScan(injuries, Len(injuries), leg, opponent_team)
             multiplier == RMax(Rat(5, 100), scan.m)
         IN  IF RLt(Rat(1, 1000000), RAbs(RSub(multiplier, RInt(1))))
             THEN [ret |-> InjuryRet(leg, multiplier),
                   notes |-> InjuryNotes(leg, scan.adj, multiplier)]
             ELSE [ret |-> None, notes |-> leg.notes]

(* ------------------------------------------------------------------ *)
(* analysis/historical_analyzer.py                                     *)
(* A head-to-head record {team_a: wins_a, team_b: wins_b} is the        *)
(* sequence of its (key, value) items; equal keys collapse to the last. *)
(* ------------------------------------------------------------------ *)
H2HRecord(team_a, wins_a, team_b, wins_b) ==
    IF team_a = team_b THEN << <<team_b, wins_b>> >>
    ELSE << <<team_a, wins_a>>, <<team_b, wins_b>> >>

RecHas(rec, team) == \E i \in 1..Len(rec) : rec[i][1] = team
RecGet(rec, team) == rec[CHOOSE i \in 1..Len(rec) : rec[i][1] = team][2]

RECURSIVE RecSum(_, _)
RecSum(rec, i) == IF i > Len(rec) THEN 0 ELSE rec[i][2] + RecSum(rec, i + 1)

(* HistoricalAnalyzer.adjust_leg with a wider swing: 0.5 instead of 0.3 *)
HistoricalMultiplierWide(team_wins, total_games) ==
    RAdd(RInt(1), RMul(RSub(Rat(team_wins, total_games), Rat(1, 2)), Rat(5, 10)))

HistoricalMultiplier(team_wins, total_games) ==
    RAdd(RInt(1), RMul(RSub(Rat(team_wins, total_games), Rat(1, 2)), Rat(3, 10)))

HistoricalNotes(leg, target_team, team_wins, total_games, multiplier) ==
    leg.notes \o
    << Note("Historical edge", target_team, "", "", team_wins, total_games - team_wins),
       Note("Historical multiplier applied", "", "", "", Hundredths(multiplier), 0) >>

historical_adjust_leg(rec, leg, target_team) ==
    IF leg.baseline_probability = None THEN [ret |-> None, notes |-> leg.notes]
    ELSE IF target_team = NoTeam \/ ~RecHas(rec, target_team)
         THEN [ret |-> None, notes |-> leg.notes]
    ELSE LET total_games == RecSum(rec, 1) IN
         IF total_games = 0 THEN [ret |-> None, notes |-> leg.notes]
         ELSE LET team_wins == RecGet(rec, target_team)
                  multiplier == HistoricalMultiplier(team_wins, total_games)
              IN  IF RLt(RAbs(RSub(multiplier, RInt(1))), Rat(1, 100))
                  THEN [ret |-> None, notes |-> leg.notes]
                  ELSE [ret |-> Clamp(RMul(leg.baseline_probability, multiplier)),
                        notes |-> HistoricalNotes(leg, target_team, team_wins,
                                                  total_games, multiplier)]

(* ------------------------------------------------------------------ *)
(* analysis/ai_advisor.py                                              *)
(* ------------------------------------------------------------------ *)
(* the notes whose lowered text holds one of a signal's keywords *)
INJURY_KEYWORD_NOTES == {"Injury multiplier applied", "Opponent missing key defender"}
HISTORY_KEYWORD_NOTES == {"Historical edge", "Historical multiplier applied"}
MARKET_KEYWORD_NOTES == {"Best price available"}

CountNotes(notes, kinds) == Cardinality({i \in 1..Len(notes) : notes[i].kind \in kinds})

(* _score_leg, for a leg with nonzero odds *)
score_leg(leg) ==
    LET implied_prob == implied_probability(leg)
        baseline == PyOr(leg.baseline_probability, implied_prob)
        adjusted == PyOr(leg.adjusted_probability, baseline)
    IN  [ev |-> RDiv(RSub(adjusted, implied_prob), implied_prob),
         injury |-> Rat(CountNotes(leg.notes, INJURY_KEYWORD_NOTES), 10),
         history |-> Rat(CountNotes(leg.notes, HISTORY_KEYWORD_NOTES), 10),
         market |-> Rat(5 * CountNotes(leg.notes, MARKET_KEYWORD_NOTES), 100),
         implied_prob |-> implied_prob,
         adjusted_prob |-> adjusted]

value_score(scores) ==
    RAdd(RAdd(RMul(scores.ev, Rat(5, 10)), RMul(scores.injury, Rat(2, 10))),
         RAdd(RMul(scores.history, Rat(15, 100)), RMul(scores.market, Rat(15, 100))))

RECURSIVE ValueSum(_, _)
ValueSum(ls, i) ==
    IF i > Len(ls) THEN RInt(0)
    ELSE RAdd(value_score(score_leg(ls[i])), ValueSum(ls, i + 1))

overall_score(ls) ==
    IF Len(ls) = 0 THEN RInt(0) ELSE RDiv(ValueSum(ls, 1), RInt(Len(ls)))

(* the verdict without the expected-value test *)
VerdictIgnoresEV(overall, expected_val) ==
    IF RLt(Rat(15, 100), overall) THEN "Strong Value"
    ELSE IF RLt(Rat(5, 100), overall) THEN "Moderate Value"
    ELSE IF RLt(overall, Rat(-1, 10)) THEN "High Risk"
    ELSE "Neutral"

Verdict(overall, expected_val) ==
    IF RLt(Rat(15, 100), overall) /\ RLt(RInt(0), PyOr(expected_val, RInt(0)))
    THEN "Strong Value"
    ELSE IF RLt(Rat(5, 100), overall) THEN "Moderate Value"
    ELSE IF RLt(overall, Rat(-1, 10)) THEN "High Risk"
    ELSE "Neutral"

ExpectedVal(ls, stake_amount) ==
    IF combined_probability(ls) = None THEN None
    ELSE expected_value(combined_probability(ls), combined_decimal_odds(ls), stake_amount)

(* HeuristicAIAdvisor.evaluate raises when combined_decimal_odds does (a leg with odds 0) *)
advisor_raises(ls) == combined_decimal_odds(ls) = ValueError

(* HeuristicAIAdvisor.evaluate: the EvaluationResult, when it does not raise *)
advisor_evaluate(ls, stake_amount) ==
    << [overall_value_score |-> overall_score(ls),
         verdict |-> Verdict(overall_score(ls), ExpectedVal(ls, stake_amount)),
             expected_value |-> ExpectedVal(ls, stake_amount),
             combined_probability |-> combined_probability(ls),
             leg_breakdown |-> [i \in 1..Len(ls) |-> score_leg(ls[i])]] >>

(* ------------------------------------------------------------------ *)
(* Bounds and inputs                                                   *)
(* ------------------------------------------------------------------ *)
MaxEvals == 2
MaxInjuries == 2
MaxOdds == 150

Teams == {"KC", "BUF"}

(* str.lower() on the names of the model *)
Lower(name) == IF name \in {"Mahomes", "MAHOMES"} THEN "mahomes" ELSE name

(* what the player directory provider can return *)
PlayerFeeds ==
    { <<>>,
      << [Name |-> "Mahomes", Team |-> "KC", Position |-> "QB"],
         [Name |-> "Ghost", Team |-> NoTeam, Position |-> "WR"] >> }

(* the season's injury report; the feed returns up to MaxInjuries of its rows, in order *)
InjuryReport ==
    << [Team |-> "BUF", Name |-> "Milano", Position |-> "LB", Status |-> "Out"],
       [Team |-> "BUF", Name |-> "Hyde", Position |-> "S", Status |-> "Questionable"],
       [Team |-> "KC", Name |-> "Kelce", Position |-> "TE", Status |-> "Out"],
       [Team |-> "BUF", Name |-> "White", Position |-> "CB", Status |-> "Doubtful"] >>

RECURSIVE PickRows(_, _)
PickRows(rows, picked) ==
    IF Len(rows) = 0 THEN <<>>
    ELSE (IF Len(rows) \in picked THEN PickRows(SubSeq(rows, 1, Len(rows) - 1), picked)
                                        \o <<rows[Len(rows)]>>
          ELSE PickRows(SubSeq(rows, 1, Len(rows) - 1), picked))

InjuryFeeds ==
    { PickRows(InjuryReport, picked) :
        picked \in {q \in SUBSET (1..Len(InjuryReport)) : Cardinality(q) <= MaxInjuries} }

(* wins of (team_a, team_b) the head-to-head provider can count; a team has *)
(* no games against itself                                                  *)
H2HWins(team_a, team_b) ==
    IF team_a = team_b THEN { <<0, 0>> }
    ELSE { <<10, 0>>, <<5, 5>>, <<1, 3>>, <<0, 0>> }

(* what the market-price provider can return besides raising *)
MarketOffers ==
    { None, << [bookmaker |-> "DraftKings", market |-> "player_pass_yds", price |-> -105] >> }

(* a provider call returns data or raises *)
Ok(data) == [ok |-> TRUE, data |-> data]
Fail == [ok |-> FALSE, data |-> <<>>]
Responses(datas) == {Ok(d) : d \in datas} \cup {Fail}

OddsInputs == {-110, 0, 10000}
BaselineInputs == {None, Rat(0, 1), Rat(19, 20)}
NameInputs == {NoName, "MAHOMES"}
TeamInputs == Teams \cup {NoTeam}

(* build_parlay_from_dict on one "legs" entry: the matchups at -110 with no *)
(* baseline, and the odds and baselines with no matchup and with a full one *)
MatchupInputs(leg_id) ==
    { BetLeg(leg_id, -110, t, None, pn, opp) :
        t \in TeamInputs, pn \in NameInputs, opp \in TeamInputs }

PricingInputs(leg_id) ==
    { BetLeg(leg_id, o, NoTeam, b, NoName, NoTeam) : o \in OddsInputs, b \in BaselineInputs }
    \cup
    { BetLeg(leg_id, o, NoTeam, b, "MAHOMES", "BUF") : o \in OddsInputs, b \in BaselineInputs }

LegInputs(leg_id) == MatchupInputs(leg_id) \cup PricingInputs(leg_id)

(* two-leg parlays: a player prop against BUF, and a BUF leg against KC *)
PairInputs(leg_id) ==
    { BetLeg(leg_id, -110, NoTeam, None, "MAHOMES", "BUF"),
      BetLeg(leg_id, -110, "BUF", None, NoName, "KC") }

ParlayInputs ==
    { <<l>> : l \in LegInputs("L1") } \cup
    { <<BetLeg("L1", -110, NoTeam, None, "MAHOMES", "BUF"), l2>> : l2 \in PairInputs("L2") }
    \cup
    { <<BetLeg("L1", -110, NoTeam, None, "MAHOMES", "BUF"),
        BetLeg("L2", 0, NoTeam, b, NoName, NoTeam)>> : b \in {None, Rat(19, 20)} }

(* ------------------------------------------------------------------ *)
(* parlay_evaluator.py: state                                          *)
(* ------------------------------------------------------------------ *)
VARIABLES
    entries,           \* the legs as build_parlay_from_dict built them from the input
    legs,              \* parlay.legs, each leg mutated in place
    stake,             \* parlay.stake
    use_live_data,     \* ParlayEvaluator.use_live_data
    player_directory,  \* ParlayEvaluator._player_directory: set of <<key, Player>>
    injury_adjuster,   \* ParlayEvaluator._injury_adjuster: None or <<injuries>>
    h2h_cache,         \* the lru_cache of _get_head_to_head, least recently used first
    pc,                \* where evaluate() stands: idle, injury, historical, market, score;
                       \* "direct" when the adjusters are called outside evaluate()
    idx,               \* the leg the loop of _apply_adjustments is at
    outcome,           \* how the last evaluate() ended: none, running, returned, raised
    result,            \* the EvaluationResult the last evaluate() returned, in a 1-tuple
    evals,             \* evaluate() calls made
    calls,             \* calls the providers have received, and whether all of them raised
    trace,             \* adjuster, annotation and scoring invocations of the current call
    marks,             \* each leg's number of notes when the current call started
    conv               \* utils.py conversions: the odds converted and what came back

vars == <<entries, legs, stake, use_live_data, player_directory, injury_adjuster, h2h_cache,
          pc, idx, outcome, result, evals, calls, trace, marks, conv>>

NoCalls == [players |-> 0, injuries |-> 0, market |-> 0, h2h |-> <<>>, all_failed |-> TRUE]

(* ParlayEvaluator.__init__ *)
EvaluatorInit ==
    /\ player_directory = {}
    /\ injury_adjuster = None
    /\ h2h_cache = <<>>
    /\ pc = "idle"
    /\ idx = 0
    /\ outcome = "none"
    /\ result = None
    /\ evals = 0
    /\ calls = NoCalls
    /\ trace = <<>>

Init ==
    /\ legs \in ParlayInputs
    /\ entries = legs
    /\ stake = RInt(1)
    /\ use_live_data \in BOOLEAN
    /\ marks = [i \in 1..Len(legs) |-> 0]
    /\ conv = None
    /\ EvaluatorInit

(* ------------------------------------------------------------------ *)
(* parlay_evaluator.py: operations                                     *)
(* ------------------------------------------------------------------ *)
(* _load_players: the directory after the call, given the provider's response *)
DirectoryOf(rows) ==
    { <<Lower(rows[i].Name), Player(rows[i].Name, rows[i].Team, rows[i].Position)>> :
        i \in {j \in 1..Len(rows) : rows[j].Name # NoName /\ rows[j].Team # NoTeam} }

NeedPlayers == player_directory = {} /\ use_live_data

load_players(resp) ==
    IF ~NeedPlayers \/ ~resp.ok THEN player_directory ELSE DirectoryOf(resp.data)

(* _attach_players, for one leg *)
attach_player(leg, directory) ==
    IF leg.player_name # NoName /\ leg.player = None
          /\ \E e \in directory : e[1] = Lower(leg.player_name)
    THEN [leg EXCEPT !.player = (CHOOSE e \in directory : e[1] = Lower(leg.player_name))[2]]
    ELSE leg

(* _load_injuries *)
(* _load_injuries without the use_live_data test *)
NeedInjuriesAlways == injury_adjuster = None

NeedInjuries == injury_adjuster = None /\ use_live_data

(* _load_injuries keeping no adjuster when the fetch raised *)
load_injuries_retrying(resp) ==
    IF ~NeedInjuries THEN injury_adjuster
    ELSE IF resp.ok THEN <<resp.data>> ELSE None

load_injuries(resp) ==
    IF ~NeedInjuries THEN injury_adjuster
    ELSE IF resp.ok THEN <<resp.data>> ELSE << <<>> >>

(* evaluate() is entered; _attach_players and _load_injuries run (lines 83-84) *)
StartEvaluate ==
    /\ pc = "idle"
    /\ evals < MaxEvals
    /\ \E presp \in (IF NeedPlayers THEN Responses(PlayerFeeds) ELSE {Fail}),
          iresp \in (IF NeedInjuries THEN Responses(InjuryFeeds) ELSE {Fail}) :
        /\ player_directory' = load_players(presp)
        /\ legs' = [i \in 1..Len(legs) |-> attach_player(legs[i], load_players(presp))]
        /\ injury_adjuster' = load_injuries(iresp)
        /\ calls' = [calls EXCEPT
                       !.players = @ + (IF NeedPlayers THEN 1 ELSE 0),
                       !.injuries = @ + (IF NeedInjuries THEN 1 ELSE 0),
                       !.all_failed = @ /\ ~(NeedPlayers /\ presp.ok)
                                        /\ ~(NeedInjuries /\ iresp.ok)]
    /\ pc' = "injury"
    /\ idx' = 1
    /\ outcome' = "running"
    /\ result' = None
    /\ trace' = <<>>
    /\ marks' = [i \in 1..Len(legs) |-> Len(legs[i].notes)]
    /\ UNCHANGED <<entries, stake, use_live_data, h2h_cache, evals, conv>>

(* lines 86-96 for a leg whose baseline is set *)
RunsInjury(leg) == injury_adjuster # None /\ leg.opponent_team # NoTeam

(* lines 90-96 without line 94: the baseline keeps its value *)
apply_injury_keeps_baseline(leg) ==
    LET r == IF RunsInjury(leg)
             THEN injury_adjust_leg(injury_adjuster[1], leg, leg.opponent_team)
             ELSE [ret |-> None, notes |-> leg.notes]
        l1 == IF r.ret # None
              THEN [leg EXCEPT !.notes = r.notes, !.adjusted_probability = r.ret]
              ELSE [leg EXCEPT !.notes = r.notes]
    IN  IF l1.adjusted_probability = None
        THEN [l1 EXCEPT !.adjusted_probability = l1.baseline_probability]
        ELSE l1

apply_injury(leg) ==
    LET r == IF RunsInjury(leg)
             THEN injury_adjust_leg(injury_adjuster[1], leg, leg.opponent_team)
             ELSE [ret |-> None, notes |-> leg.notes]
        l1 == IF r.ret # None
              THEN [leg EXCEPT !.notes = r.notes, !.adjusted_probability = r.ret,
                               !.baseline_probability = r.ret]
              ELSE [leg EXCEPT !.notes = r.notes]
    IN  IF l1.adjusted_probability = None
        THEN [l1 EXCEPT !.adjusted_probability = l1.baseline_probability]
        ELSE l1

(* line 87 without its test: the baseline is reset to the implied probability *)
default_baseline_reset(leg) ==
    IF implied_probability(leg) = ValueError THEN leg
    ELSE [leg EXCEPT !.baseline_probability = implied_probability(leg)]

(* line 87: the baseline defaults to the implied probability *)
default_baseline(leg) ==
    IF leg.baseline_probability = None
    THEN [leg EXCEPT !.baseline_probability = implied_probability(leg)]
    ELSE leg

(* the loop body up to line 96; implied_probability raises on odds 0 *)
LegInjury ==
    /\ pc = "injury"
    /\ IF legs[idx].baseline_probability = None
            /\ implied_probability(legs[idx]) = ValueError
       THEN /\ pc' = "idle"
            /\ outcome' = "raised"
            /\ evals' = evals + 1
            /\ UNCHANGED <<legs, trace>>
       ELSE /\ legs' = [legs EXCEPT ![idx] = apply_injury(default_baseline(legs[idx]))]
            /\ trace' = IF RunsInjury(legs[idx]) THEN Append(trace, <<"injury", idx>>)
                        ELSE trace
            /\ pc' = "historical"
            /\ UNCHANGED <<outcome, evals>>
    /\ UNCHANGED <<entries, stake, use_live_data, player_directory, injury_adjuster, h2h_cache,
                   idx, result, calls, marks, conv>>

(* line 89 *)
target_team(leg) ==
    IF leg.team # NoTeam THEN leg.team
    ELSE IF leg.player # None THEN leg.player[2] ELSE NoTeam

RunsHistorical(leg) ==
    target_team(leg) # NoTeam /\ leg.opponent_team # NoTeam /\ use_live_data

(* the lru_cache of _get_head_to_head: keyed by the call's arguments *)
LRU_MAXSIZE == 16

CacheKey(team_a, team_b) == <<team_a, team_b>>

CacheHit(cache, key) == \E i \in 1..Len(cache) : cache[i].key = key

CacheIndex(cache, key) == CHOOSE i \in 1..Len(cache) : cache[i].key = key

CacheTouch(cache, key) ==
    LET i == CacheIndex(cache, key)
    IN  SubSeq(cache, 1, i - 1) \o SubSeq(cache, i + 1, Len(cache)) \o <<cache[i]>>

CachePut(cache, key, value) ==
    LET c == Append(cache, [key |-> key, value |-> value])
    IN  IF Len(c) > LRU_MAXSIZE THEN Tail(c) ELSE c

(* a fallback record that is not all zeros *)
HeadToHeadFallbackWins(team_a, team_b, resp) ==
    IF resp.ok THEN H2HRecord(team_a, resp.data[1], team_b, resp.data[2])
    ELSE H2HRecord(team_a, 1, team_b, 0)

(* _get_head_to_head's body: the provider's record, or zeros when it raises *)
HeadToHead(team_a, team_b, resp) ==
    IF resp.ok THEN H2HRecord(team_a, resp.data[1], team_b, resp.data[2])
    ELSE H2HRecord(team_a, 0, team_b, 0)

(* lines 101-103 *)
apply_historical(leg, rec) ==
    LET r == historical_adjust_leg(rec, leg, target_team(leg))
    IN  IF r.ret # None
        THEN [leg EXCEPT !.notes = r.notes, !.adjusted_probability = r.ret,
                         !.baseline_probability = r.ret]
        ELSE [leg EXCEPT !.notes = r.notes]

(* lines 97-103 *)
LegHistorical ==
    /\ pc = "historical"
    /\ LET leg == legs[idx]
           key == CacheKey(target_team(leg), leg.opponent_team)
           miss == RunsHistorical(leg) /\ ~CacheHit(h2h_cache, key)
       IN  \E resp \in (IF miss THEN Responses(H2HWins(key[1], key[2])) ELSE {Fail}) :
             IF ~RunsHistorical(leg)
             THEN UNCHANGED <<legs, h2h_cache, calls, trace>>
             ELSE LET rec == IF miss THEN HeadToHead(key[1], key[2], resp)
                             ELSE h2h_cache[CacheIndex(h2h_cache, key)].value
                  IN  /\ h2h_cache' = IF miss THEN CachePut(h2h_cache, key, rec)
                                      ELSE CacheTouch(h2h_cache, key)
                      /\ calls' = IF miss
                                  THEN [calls EXCEPT !.h2h = Append(@, key),
                                                     !.all_failed = @ /\ ~resp.ok]
                                  ELSE calls
                      /\ legs' = [legs EXCEPT ![idx] = apply_historical(leg, rec)]
                      /\ trace' = Append(trace, <<"historical", idx>>)
    /\ pc' = "market"
    /\ UNCHANGED <<entries, stake, use_live_data, player_directory, injury_adjuster, idx, outcome,
                   result, evals, marks, conv>>

(* the annotation replacing the leg's notes *)
annotate_market_price_replacing(leg, resp) ==
    IF ~resp.ok \/ resp.data = None THEN leg.notes
    ELSE << Note("Best price available", resp.data[1].bookmaker, resp.data[1].market,
                 "", resp.data[1].price, 0) >>

(* the annotation appended twice *)
annotate_market_price_twice(leg, resp) ==
    IF ~resp.ok \/ resp.data = None THEN leg.notes
    ELSE leg.notes \o
         << Note("Best price available", resp.data[1].bookmaker, resp.data[1].market,
                 "", resp.data[1].price, 0),
            Note("Best price available", resp.data[1].bookmaker, resp.data[1].market,
                 "", resp.data[1].price, 0) >>

(* _annotate_market_price: the leg's notes after the call *)
annotate_market_price(leg, resp) ==
    IF ~resp.ok \/ resp.data = None THEN leg.notes
    ELSE Append(leg.notes,
                Note("Best price available", resp.data[1].bookmaker, resp.data[1].market,
                     "", resp.data[1].price, 0))

RunsMarket(leg) == use_live_data /\ leg.player_name # NoName

(* lines 104-105, and the loop's step to the next leg or to line 131 *)
LegMarket ==
    /\ pc = "market"
    /\ \E resp \in (IF RunsMarket(legs[idx]) THEN Responses(MarketOffers) ELSE {Fail}) :
         IF RunsMarket(legs[idx])
         THEN /\ legs' = [legs EXCEPT ![idx].notes = annotate_market_price(legs[idx], resp)]
              /\ calls' = [calls EXCEPT !.market = @ + 1,
                                        !.all_failed = @ /\ ~resp.ok]
              /\ trace' = Append(trace, <<"market", idx>>)
         ELSE UNCHANGED <<legs, calls, trace>>
    /\ IF idx < Len(legs)
       THEN idx' = idx + 1 /\ pc' = "injury"
       ELSE idx' = idx /\ pc' = "score"
    /\ UNCHANGED <<entries, stake, use_live_data, player_directory, injury_adjuster, h2h_cache,
                   outcome, result, evals, marks, conv>>

(* line 131: self.advisor.evaluate(parlay), and evaluate() returns or raises *)
Score ==
    /\ pc = "score"
    /\ IF advisor_raises(legs)
       THEN outcome' = "raised" /\ result' = None
       ELSE outcome' = "returned" /\ result' = advisor_evaluate(legs, stake)
    /\ trace' = Append(trace, <<"score", 0>>)
    /\ pc' = "idle"
    /\ evals' = evals + 1
    /\ UNCHANGED <<entries, legs, stake, use_live_data, player_directory, injury_adjuster,
                   h2h_cache, idx, calls, marks, conv>>

Next == StartEvaluate \/ LegInjury \/ LegHistorical \/ LegMarket \/ Score

Spec == Init /\ [][Next]_vars

(* ------------------------------------------------------------------ *)
(* HeuristicAIAdvisor.evaluate called on any parlay                    *)
(* ------------------------------------------------------------------ *)
(* the notes one live evaluation appends to a leg: two missing defenders, *)
(* a 10-0 record and a market price                                      *)
EvaluationNotes ==
    << Note("Opponent missing key defender", "", "Milano", "LB", 0, 0),
       Note("Opponent missing key defender", "", "White", "CB", 0, 0),
       Note("Injury multiplier applied", "", "", "", 110, 0),
       Note("Historical edge", "KC", "", "", 10, 0),
       Note("Historical multiplier applied", "", "", "", 115, 0),
       Note("Best price available", "DraftKings", "player_pass_yds", "", -105, 0) >>

(* a leg's notes after n evaluations of its parlay object *)
NotedEvaluations == 6

RepeatedNotes(n) ==
    [k \in 1..(n * Len(EvaluationNotes)) |->
        EvaluationNotes[((k - 1) % Len(EvaluationNotes)) + 1]]

AdvisorNotes ==
    { <<>>,
      << Note("Opponent missing key defender", "", "Milano", "LB", 0, 0),
         Note("Injury multiplier applied", "", "", "", 105, 0) >>,
      RepeatedNotes(NotedEvaluations) }

AdvisorLegs(leg_id) ==
    { [BetLeg(leg_id, o, NoTeam, b, NoName, NoTeam)
         EXCEPT !.adjusted_probability = a, !.notes = n] :
        o \in {-110, 100, 400}, b \in {None, Rat(33, 50)},
        a \in {None, Rat(1, 10), Rat(3, 10), Rat(1, 2), Rat(3, 5), Rat(33, 50)},
        n \in AdvisorNotes }

AdvisorParlays ==
    { <<l>> : l \in AdvisorLegs("L1") } \cup
    { <<l1, l2>> : l1 \in {l \in AdvisorLegs("L1") : l.baseline_probability = None},
                   l2 \in {l \in AdvisorLegs("L2") : l.odds_american = 100 /\ l.notes = <<>>} }

InitAdvisor ==
    /\ legs \in AdvisorParlays
    /\ entries = legs
    /\ stake \in {RInt(1), RInt(10)}
    /\ use_live_data = FALSE
    /\ marks = [i \in 1..Len(legs) |-> Len(legs[i].notes)]
    /\ conv = None
    /\ EvaluatorInit

(* advisor.evaluate(parlay) on its own: the parlay is only read *)
AdvisorEvaluate ==
    /\ pc = "idle"
    /\ outcome = "none"
    /\ IF advisor_raises(legs)
       THEN outcome' = "raised" /\ result' = None
       ELSE outcome' = "returned" /\ result' = advisor_evaluate(legs, stake)
    /\ UNCHANGED <<entries, legs, stake, use_live_data, player_directory, injury_adjuster,
                   h2h_cache, pc, idx, evals, calls, trace, marks, conv>>

SpecAdvisor == InitAdvisor /\ [][AdvisorEvaluate]_vars

(* ------------------------------------------------------------------ *)
(* Both entry points on one parlay object: advisor.evaluate(parlay)    *)
(* called directly, and ParlayEvaluator.evaluate(parlay)               *)
(* ------------------------------------------------------------------ *)
InitScoring == Init \/ InitAdvisor

NextScoring ==
    StartEvaluate \/ LegInjury \/ LegHistorical \/ LegMarket \/ Score \/ AdvisorEvaluate

SpecScoring == InitScoring /\ [][NextScoring]_vars

(* ------------------------------------------------------------------ *)
(* The two adjusters called directly on a leg, any number of times:    *)
(* injury_adjuster holds the InjuryAdjuster's injuries, h2h_cache the  *)
(* HistoricalAnalyzer's record; trace logs <<adjuster, returned, team>>. *)
(* ------------------------------------------------------------------ *)
MaxCalls == 2

AdjusterLegs ==
    { [BetLeg("L1", -110, NoTeam, b, "MAHOMES", NoTeam) EXCEPT !.player = p] :
        b \in {None, Rat(11, 21), Rat(19, 20)},
        p \in {None, Player("Mahomes", "KC", "QB")} }

AdjusterRecords ==
    { H2HRecord("KC", w[1], "BUF", w[2]) : w \in H2HWins("KC", "BUF") }

InitAdjusters ==
    /\ legs \in { <<l>> : l \in AdjusterLegs }
    /\ entries = legs
    /\ stake = RInt(1)
    /\ use_live_data = FALSE
    /\ marks = <<0>>
    /\ conv = None
    /\ injury_adjuster \in { <<f>> : f \in InjuryFeeds }
    /\ h2h_cache \in { << [key |-> CacheKey("KC", "BUF"), value |-> rec] >> :
                         rec \in AdjusterRecords }
    /\ player_directory = {}
    /\ pc = "direct"
    /\ idx = 1
    /\ outcome = "none"
    /\ result = None
    /\ evals = 0
    /\ calls = NoCalls
    /\ trace = <<>>

(* InjuryAdjuster(injuries).adjust_leg(leg, opponent_team) *)
InjuryAdjust ==
    /\ pc = "direct"
    /\ Len(trace) < MaxCalls
    /\ \E opponent_team \in {NoTeam} \cup Teams :
         LET r == injury_adjust_leg(injury_adjuster[1], legs[1], opponent_team)
         IN  /\ legs' = [legs EXCEPT ![1].notes = r.notes]
             /\ trace' = Append(trace, <<"injury", r.ret, opponent_team>>)
    /\ UNCHANGED <<entries, stake, use_live_data, player_directory, injury_adjuster,
                   h2h_cache, pc, idx, outcome, result, evals, calls, marks, conv>>

(* HistoricalAnalyzer(record).adjust_leg(leg, target_team) *)
HistoricalAdjust ==
    /\ pc = "direct"
    /\ Len(trace) < MaxCalls
    /\ \E target \in {NoTeam, "DEN"} \cup Teams :
         LET r == historical_adjust_leg(h2h_cache[1].value, legs[1], target)
         IN  /\ legs' = [legs EXCEPT ![1].notes = r.notes]
             /\ trace' = Append(trace, <<"historical", r.ret, target>>)
    /\ UNCHANGED <<entries, stake, use_live_data, player_directory, injury_adjuster,
                   h2h_cache, pc, idx, outcome, result, evals, calls, marks, conv>>

NextAdjusters == InjuryAdjust \/ HistoricalAdjust

SpecAdjusters == InitAdjusters /\ [][NextAdjusters]_vars

(* the injury adjuster as evaluate() calls it and as called directly *)
InitCalls == Init \/ InitAdjusters

NextCalls ==
    \/ StartEvaluate \/ LegInjury \/ LegHistorical \/ LegMarket \/ Score
    \/ InjuryAdjust \/ HistoricalAdjust

SpecCalls == InitCalls /\ [][NextCalls]_vars

(* ------------------------------------------------------------------ *)
(* HeuristicAIAdvisor.get_analysis_context (its own copy of the        *)
(* scoring code) and analysis/llm_advisor.py                           *)
(* ------------------------------------------------------------------ *)
(* lines 149-154 *)
context_value_score(scores) ==
    RAdd(RAdd(RMul(scores.ev, Rat(5, 10)), RMul(scores.injury, Rat(2, 10))),
         RAdd(RMul(scores.history, Rat(15, 100)), RMul(scores.market, Rat(15, 100))))

RECURSIVE ContextValueSum(_, _)
ContextValueSum(ls, i) ==
    IF i > Len(ls) THEN RInt(0)
    ELSE RAdd(context_value_score(score_leg(ls[i])), ContextValueSum(ls, i + 1))

(* line 162 *)
context_overall_score(ls) ==
    IF Len(ls) = 0 THEN RInt(0) ELSE RDiv(ContextValueSum(ls, 1), RInt(Len(ls)))

(* the verdict without its High Risk branch *)
ContextVerdictNoHighRisk(overall, expected_val) ==
    IF RLt(Rat(15, 100), overall)
          /\ RLt(RInt(0), (IF expected_val = None THEN RInt(0) ELSE expected_val))
    THEN "Strong Value"
    ELSE IF RLt(Rat(5, 100), overall) THEN "Moderate Value"
    ELSE "Neutral"

(* lines 164-171 *)
ContextVerdict(overall, expected_val) ==
    IF RLt(Rat(15, 100), overall)
          /\ RLt(RInt(0), (IF expected_val = None THEN RInt(0) ELSE expected_val))
    THEN "Strong Value"
    ELSE IF RLt(Rat(5, 100), overall) THEN "Moderate Value"
    ELSE IF RLt(overall, Rat(-1, 10)) THEN "High Risk"
    ELSE "Neutral"

(* lines 136-142 *)
ContextExpectedVal(ls, stake_amount) ==
    IF combined_probability(ls) = None THEN None
    ELSE expected_value(combined_probability(ls), combined_decimal_odds(ls), stake_amount)

(* get_analysis_context, when it does not raise: the AnalysisContext *)
get_analysis_context(ls, stake_amount) ==
    [leg_scores |-> [i \in 1..Len(ls) |-> score_leg(ls[i])],
     overall_score |-> context_overall_score(ls),
     expected_value |-> ContextExpectedVal(ls, stake_amount),
     combined_probability |-> combined_probability(ls),
     verdict |-> ContextVerdict(context_overall_score(ls),
                                ContextExpectedVal(ls, stake_amount))]

(* how a GeminiAdvisor.evaluate call can go: no API key, the model answers, the model raises *)
GeminiModes == {"no_key", "model_ok", "model_failed"}

(* GeminiAdvisor.evaluate, when it does not raise: the EvaluationResult without its rationale *)
gemini_evaluate(ls, stake_amount, mode) ==
    LET context == get_analysis_context(ls, stake_amount)
    IN  IF mode = "no_key" THEN advisor_evaluate(ls, stake_amount)
        ELSE << [overall_value_score |-> context.overall_score,
                 verdict |-> context.verdict,
                 expected_value |-> context.expected_value,
                 combined_probability |-> context.combined_probability,
                 leg_breakdown |-> context.leg_scores] >>

(* GeminiAdvisor().evaluate(parlay); trace logs <<"gemini", mode>> *)
GeminiEvaluate ==
    /\ pc = "idle"
    /\ outcome = "none"
    /\ \E mode \in GeminiModes :
         /\ IF advisor_raises(legs)
            THEN outcome' = "raised" /\ result' = None
            ELSE outcome' = "returned" /\ result' = gemini_evaluate(legs, stake, mode)
         /\ trace' = Append(trace, <<"gemini", mode>>)
    /\ UNCHANGED <<entries, legs, stake, use_live_data, player_directory, injury_adjuster,
                   h2h_cache, pc, idx, evals, calls, marks, conv>>

NextGemini == AdvisorEvaluate \/ GeminiEvaluate

SpecGemini == InitAdvisor /\ [][NextGemini]_vars

(* ------------------------------------------------------------------ *)
(* utils.py conversions applied to every odds in -MaxOdds..MaxOdds     *)
(* ------------------------------------------------------------------ *)
InitConv ==
    /\ conv \in { [stage |-> "odds", odds |-> o, decimal |-> None, american |-> 0] :
                    o \in (-MaxOdds)..MaxOdds }
    /\ legs = <<>>
    /\ entries = <<>>
    /\ stake = RInt(1)
    /\ use_live_data = FALSE
    /\ marks = <<>>
    /\ EvaluatorInit

ToDecimal ==
    /\ conv.stage = "odds"
    /\ conv' = [conv EXCEPT !.decimal = american_to_decimal(conv.odds),
                            !.stage = IF conv.odds = 0 THEN "raised" ELSE "decimal"]
    /\ UNCHANGED <<entries, legs, stake, use_live_data, player_directory, injury_adjuster,
                   h2h_cache, pc, idx, outcome, result, evals, calls, trace, marks>>

ToAmerican ==
    /\ conv.stage = "decimal"
    /\ \E a \in decimal_to_american(conv.decimal) :
         conv' = [conv EXCEPT !.american = a, !.stage = "american"]
    /\ UNCHANGED <<entries, legs, stake, use_live_data, player_directory, injury_adjuster,
                   h2h_cache, pc, idx, outcome, result, evals, calls, trace, marks>>

NextConv == ToDecimal \/ ToAmerican

SpecConv == InitConv /\ [][NextConv]_vars

(* ================================================================== *)
(* Properties                                                          *)
(* ================================================================== *)
Returned == pc = "idle" /\ outcome = "returned"
Raised == pc = "idle" /\ outcome = "raised"
LegIds == 1..Len(legs)
InRange(p) == RLe(Rat(1, 100), p) /\ RLe(p, Rat(99, 100))

(* C1, as claimed: when every external fetch of a live evaluator has    *)
(* failed and evaluate has returned, each leg has                       *)
(* adjusted_probability = baseline_probability = implied probability.   *)
C1_AllImplied ==
    (Returned /\ use_live_data /\ calls.all_failed) =>
        \A i \in LegIds :
            /\ legs[i].adjusted_probability = legs[i].baseline_probability
            /\ legs[i].baseline_probability = implied_probability(legs[i])

(* C1, amended: when every external fetch has failed, evaluate on a     *)
(* parlay whose legs all have nonzero odds returns a result, and each   *)
(* leg has adjusted_probability = baseline_probability, which is the    *)
(* baseline supplied in the input when there is one and the implied     *)
(* probability of the odds otherwise; no note is added.                 *)
C1_FailedFetchesFallBack ==
    (pc = "idle" /\ outcome # "none" /\ use_live_data /\ calls.all_failed
        /\ \A i \in LegIds : legs[i].odds_american # 0) =>
        /\ outcome = "returned"
        /\ result # None
        /\ \A i \in LegIds :
            /\ legs[i].adjusted_probability = legs[i].baseline_probability
            /\ legs[i].baseline_probability =
                 (IF entries[i].baseline_probability # None
                  THEN entries[i].baseline_probability
                  ELSE implied_probability(legs[i]))
            /\ legs[i].notes = <<>>

(* C1 witness: all four kinds of fetch were attempted, all raised, and  *)
(* the evaluation returned                                              *)
C1_Witness ==
    /\ Returned /\ use_live_data /\ calls.all_failed
    /\ calls.players > 0 /\ calls.injuries > 0 /\ calls.market > 0 /\ Len(calls.h2h) > 0
    /\ \E i \in LegIds : entries[i].baseline_probability = None

(* C2: once evaluate has started, every set baseline_probability and    *)
(* adjusted_probability lies in [0.01, 0.99], the defaulted and the     *)
(* supplied baselines included.                                         *)
C2_ProbabilitiesInRange ==
    outcome # "none" =>
        \A i \in LegIds :
            /\ legs[i].baseline_probability # None => InRange(legs[i].baseline_probability)
            /\ legs[i].adjusted_probability # None => InRange(legs[i].adjusted_probability)

(* C3: every step leaves each leg's earlier notes as a prefix of its    *)
(* notes: notes are only appended.                                      *)
C3_NotesAppendOnly ==
    [][\A i \in LegIds : IsPrefix(legs[i].notes, legs'[i].notes)]_vars

(* C3 witness: a second evaluation has appended injury, historical and  *)
(* market notes after those of the first                                *)
C3_Witness ==
    /\ Returned /\ evals = 2
    /\ \E i \in LegIds :
        /\ marks[i] >= 4
        /\ Len(legs[i].notes) >= marks[i] + 4
        /\ CountNotes(legs[i].notes, MARKET_KEYWORD_NOTES) = 2

(* C4: within one evaluate call the adjusters run leg by leg in the     *)
(* parlay's order, and for a leg injury, historical and market each at  *)
(* most once and in that order, all before scoring; the notes a leg     *)
(* gains in the call are injury notes, then historical, then market.    *)
StageRank(op) ==
    CASE op = "injury" -> 1 [] op = "historical" -> 2 [] op = "market" -> 3 [] OTHER -> 4

NoteRank(note) ==
    IF note.kind \in HISTORY_KEYWORD_NOTES THEN 2
    ELSE IF note.kind \in MARKET_KEYWORD_NOTES THEN 3 ELSE 1

Before(e, f) ==
    IF f[1] = "score" THEN e[1] # "score"
    ELSE e[1] # "score" /\ (e[2] < f[2] \/ (e[2] = f[2] /\ StageRank(e[1]) < StageRank(f[1])))

AddedNotes(i) == SubSeq(legs[i].notes, marks[i] + 1, Len(legs[i].notes))

C4_AdjusterOrder ==
    /\ \A j, k \in 1..Len(trace) : j < k => Before(trace[j], trace[k])
    /\ \A i \in LegIds :
        LET added == AddedNotes(i)
        IN  /\ \A j, k \in 1..Len(added) : j < k => NoteRank(added[j]) <= NoteRank(added[k])
            /\ CountNotes(added, {"Injury multiplier applied"}) <= 1
            /\ CountNotes(added, {"Historical multiplier applied"}) <= 1
            /\ CountNotes(added, MARKET_KEYWORD_NOTES) <= 1

(* C4 witness: a two-leg evaluation in which all three steps ran and     *)
(* left notes on both legs before scoring                               *)
C4_Witness ==
    /\ Returned /\ Len(legs) = 2 /\ Len(trace) = 7
    /\ \A i \in LegIds :
        /\ CountNotes(AddedNotes(i), {"Injury multiplier applied"}) = 1
        /\ CountNotes(AddedNotes(i), {"Historical multiplier applied"}) = 1
        /\ CountNotes(AddedNotes(i), MARKET_KEYWORD_NOTES) = 1

(* C5: the head-to-head provider is called at most once per unordered   *)
(* team pair over the evaluator's lifetime.                             *)
SamePair(p, q) == p = q \/ (p[1] = q[2] /\ p[2] = q[1])

C5_OncePerUnorderedPair ==
    \A j, k \in 1..Len(calls.h2h) : j < k => ~SamePair(calls.h2h[j], calls.h2h[k])

(* C6: the verdict is decided by the tests in priority order: overall   *)
(* > 0.15 and expected value > 0 gives Strong Value, else overall >     *)
(* 0.05 Moderate Value, else overall < -0.1 High Risk, else Neutral.    *)
C6_VerdictThresholds ==
    outcome = "returned" =>
        LET r == result[1]
            o == r.overall_value_score
            evpos == r.expected_value # None /\ RLt(RInt(0), r.expected_value)
            strong == RLt(Rat(15, 100), o) /\ evpos
            moderate == ~strong /\ RLt(Rat(5, 100), o)
            risky == ~strong /\ ~moderate /\ RLt(o, Rat(-1, 10))
        IN  /\ strong => r.verdict = "Strong Value"
            /\ moderate => r.verdict = "Moderate Value"
            /\ risky => r.verdict = "High Risk"
            /\ (~strong /\ ~moderate /\ ~risky) => r.verdict = "Neutral"
            /\ (o = Rat(16, 100) /\ evpos) => r.verdict = "Strong Value"
            /\ o = Rat(10, 100) => r.verdict = "Moderate Value"
            /\ o = Rat(-2, 10) => r.verdict = "High Risk"
            /\ o = RInt(0) => r.verdict = "Neutral"
            /\ (RLt(Rat(15, 100), o) /\ ~evpos) => r.verdict = "Moderate Value"

(* C6 witness: an overall score above 0.15 whose expected value is set  *)
(* and not above 0, rated Moderate Value                                *)
C6_Witness ==
    /\ outcome = "returned"
    /\ RLt(Rat(15, 100), result[1].overall_value_score)
    /\ result[1].expected_value # None
    /\ RLe(result[1].expected_value, RInt(0))
    /\ result[1].verdict = "Moderate Value"

(* the single-leg parlay of C7: odds -110, adjusted probability 0.60, stake 10 *)
C7_Case ==
    /\ outcome = "returned"
    /\ Len(legs) = 1
    /\ legs[1].odds_american = -110
    /\ legs[1].adjusted_probability = Rat(60, 100)
    /\ stake = RInt(10)

Near(x, y, eps) == RLe(RAbs(RSub(x, y)), eps)

(* C7, as claimed: for that parlay the expected value is about -0.546.  *)
C7_AboutMinusHalf ==
    C7_Case => Near(result[1].expected_value, Rat(-546, 1000), Rat(1, 100))

(* C7, amended: for that parlay the expected value is                   *)
(* 0.60*(decimalOdds-1)*10 - 0.40*10 with decimal odds 21/11 (about     *)
(* 1.909), that is 16/11, about +1.4545.                                *)
C7_ExpectedValue ==
    C7_Case =>
        /\ combined_decimal_odds(legs) = Rat(21, 11)
        /\ result[1].expected_value =
             RSub(RMul(RMul(Rat(60, 100), RSub(Rat(21, 11), RInt(1))), RInt(10)),
                  RMul(Rat(40, 100), RInt(10)))
        /\ result[1].expected_value = Rat(16, 11)
        /\ Near(result[1].expected_value, Rat(14545, 10000), Rat(1, 1000))

(* C7 witness: the advisor has scored that parlay *)
C7_Witness == C7_Case /\ result[1].combined_probability = Rat(60, 100)

SameSign(a, b) == (a > 0 /\ b > 0) \/ (a < 0 /\ b < 0)

C9_ZeroOddsNeverScored ==
    (\E i \in LegIds : legs[i].odds_american = 0) =>
        /\ \A i \in LegIds :
             legs[i].odds_american = 0 => implied_probability(legs[i]) = ValueError
        /\ american_to_decimal(0) = ValueError
        /\ result = None
        /\ outcome # "returned"
        /\ (pc = "idle" /\ evals > 0) => outcome = "raised"

(* C9 witness: a zero-odds leg with a supplied baseline went through    *)
(* the adjustments with live providers answering, and scoring raised    *)
C9_Witness ==
    /\ Raised
    /\ \E i \in LegIds :
        /\ legs[i].odds_american = 0
        /\ entries[i].baseline_probability # None
        /\ legs[i].adjusted_probability # None
    /\ ~calls.all_failed
    /\ Len(trace) > 0 /\ trace[Len(trace)][1] = "score"

(* the rows of the feed the injury scan counts as missing defenders of team *)
DefendersOut(feed, team) ==
    SelectSeq(feed, LAMBDA r : /\ r.Team = team
                               /\ r.Status \in {"Out", "Doubtful"}
                               /\ r.Position \in KEY_DEFENSIVE_POSITIONS)

DefenderNotes(rows) ==
    [k \in 1..Len(rows) |->
        Note("Opponent missing key defender", "", rows[k].Name, rows[k].Position, 0, 0)]

HistoricalStep == pc = "historical" /\ pc' = "market" /\ RunsHistorical(legs[idx])

(* the head-to-head record that step handed to the adjuster *)
RecordUsed ==
    LET key == CacheKey(target_team(legs[idx]), legs[idx].opponent_team)
    IN  h2h_cache'[CacheIndex(h2h_cache', key)].value

(* C11: with a set baseline, the target team in the record and total    *)
(* games > 0 the historical multiplier is m = 1 + (wins/total - 0.5) *  *)
(* 0.3; if |m - 1| < 0.01 nothing is returned and no note is appended   *)
(* (a 5-5 split); otherwise the leg gets clamp(baseline * m) and        *)
(* exactly two notes, the record summary then the multiplier note (a    *)
(* 10-0 record gives 1.15). With total games 0 nothing happens.         *)
C11_HistoricalMultiplier ==
    [][ HistoricalStep =>
        LET leg == legs[idx]
            after == legs'[idx]
            T == target_team(leg)
            rec == RecordUsed
            w == RecGet(rec, T)
            t == RecSum(rec, 1)
            dead == 100 * Abs(6 * w - 3 * t) < 20 * t
            m == Rat(17 * t + 6 * w, 20 * t)
        IN  /\ leg.baseline_probability # None /\ RecHas(rec, T)
            /\ t = 0 => after = leg
            /\ (t > 0 /\ dead) => after = leg
            /\ (t > 0 /\ ~dead) =>
                 /\ after.adjusted_probability = Clamp(RMul(leg.baseline_probability, m))
                 /\ after.baseline_probability = after.adjusted_probability
                 /\ after.notes = leg.notes \o
                      << Note("Historical edge", T, "", "", w, t - w),
                         Note("Historical multiplier applied", "", "", "",
                              Hundredths(m), 0) >>
                 /\ Len(after.notes) = Len(leg.notes) + 2
            /\ (w = 5 /\ t = 10) => after = leg
            /\ (w = 10 /\ t = 10) =>
                 /\ after.notes[Len(after.notes)].x = 115
                 /\ after.adjusted_probability =
                      Clamp(RMul(leg.baseline_probability, Rat(115, 100)))
      ]_vars

(* C11 witness: a 10-0 record has just been applied to a leg: its last  *)
(* two notes are the 10-0 summary and the 1.15 multiplier note          *)
C11_Witness ==
    /\ pc = "market" /\ evals = 0
    /\ Len(trace) > 0 /\ trace[Len(trace)] = <<"historical", idx>>
    /\ Len(legs[idx].notes) >= 2
    /\ legs[idx].notes[Len(legs[idx].notes)] =
         Note("Historical multiplier applied", "", "", "", 115, 0)
    /\ legs[idx].notes[Len(legs[idx].notes) - 1].kind = "Historical edge"
    /\ legs[idx].notes[Len(legs[idx].notes) - 1].x = 10
    /\ legs[idx].notes[Len(legs[idx].notes) - 1].y = 0

(* the baseline a leg starts from: supplied in the input, or implied by its odds *)
InputBaseline(i) ==
    IF entries[i].baseline_probability # None THEN entries[i].baseline_probability
    ELSE implied_probability(entries[i])

(* C12: with use_live_data = False evaluate calls no provider, appends  *)
(* no note and attaches no player, and every leg it has processed has   *)
(* adjusted_probability == baseline_probability == the baseline         *)
(* supplied in the input, or else the odds-implied probability.         *)
C12_OfflineTouchesNothing ==
    ~use_live_data =>
        /\ calls = NoCalls
        /\ player_directory = {} /\ injury_adjuster = None /\ h2h_cache = <<>>
        /\ \A i \in LegIds :
            /\ legs[i].notes = <<>>
            /\ legs[i].player = None
            /\ legs[i].adjusted_probability # None =>
                 /\ legs[i].adjusted_probability = legs[i].baseline_probability
                 /\ legs[i].baseline_probability = InputBaseline(i)
        /\ Returned => \A i \in LegIds : legs[i].adjusted_probability = InputBaseline(i)

(* C12 witness: an offline evaluator has evaluated twice a leg that     *)
(* names a player and an opponent and carries a supplied baseline       *)
C12_Witness ==
    /\ ~use_live_data /\ Returned /\ evals = 2
    /\ \E i \in LegIds :
        /\ entries[i].baseline_probability = Rat(19, 20)
        /\ legs[i].player_name # NoName /\ legs[i].opponent_team # NoTeam
        /\ legs[i].adjusted_probability = Rat(19, 20)

(* C13: the advisor returns combined_probability = None and             *)
(* expected_value = None exactly when some leg's adjusted_probability   *)
(* is unset; otherwise combined_probability is the product of the legs' *)
(* adjusted probabilities and expected_value is computed from it, the   *)
(* combined decimal odds and the stake. Every result returned by        *)
(* ParlayEvaluator.evaluate has both fields set.                        *)
C13_NullableTogether ==
    Returned =>
        LET r == result[1]
            unset == \E i \in LegIds : legs[i].adjusted_probability = None
            p == IF Len(legs) = 1 THEN legs[1].adjusted_probability
                 ELSE RMul(legs[1].adjusted_probability, legs[2].adjusted_probability)
            d == combined_decimal_odds(legs)
        IN  /\ (r.combined_probability = None) <=> unset
            /\ (r.expected_value = None) <=> unset
            /\ ~unset =>
                 /\ r.combined_probability = p
                 /\ r.expected_value =
                      RSub(RMul(RMul(p, RSub(d, RInt(1))), stake),
                           RMul(RSub(RInt(1), p), stake))
            /\ evals >= 1 =>
                 r.combined_probability # None /\ r.expected_value # None

(* C13 witness: the advisor, called directly on a two-leg parlay with   *)
(* one adjusted probability unset, returned both fields as None         *)
C13_Witness ==
    /\ Returned /\ evals = 0
    /\ Len(legs) = 2
    /\ legs[1].adjusted_probability # None /\ legs[2].adjusted_probability = None
    /\ result[1].combined_probability = None /\ result[1].expected_value = None

(* what the notes of a leg say the adjusters did in the first evaluation *)
HasNote(leg, kind) == \E k \in 1..Len(leg.notes) : leg.notes[k].kind = kind

InjuryReturned(leg) == HasNote(leg, "Injury multiplier applied")

HistoricalReturned(leg) == HasNote(leg, "Historical multiplier applied")

(* the injury multiplier: 1 + 0.05 per missing defender - 0.05 per teammate out *)
NotedInjuryMultiplier(leg) ==
    RMax(Rat(5, 100),
         Rat(20 + CountNotes(leg.notes, {"Opponent missing key defender"})
                - CountNotes(leg.notes, {"teammate is out"}), 20))

(* the historical multiplier of the record the "Historical edge" note sums up *)
NotedHistoricalMultiplier(leg) ==
    LET e == leg.notes[CHOOSE k \in 1..Len(leg.notes) : leg.notes[k].kind = "Historical edge"]
    IN  Rat(17 * (e.x + e.y) + 6 * e.x, 20 * (e.x + e.y))

(* C14: in evaluate the value v the injury adjuster returns becomes     *)
(* both adjusted_probability and baseline_probability before the        *)
(* historical adjuster runs, so a leg adjusted by both ends with        *)
(* adjusted == baseline == clamp(clamp(b*mi)*mh), b the original        *)
(* baseline; when neither returns a value, adjusted is b.               *)
C14_Compounding ==
    (evals = 0 /\ pc \in {"historical", "market"}) =>
        LET leg == legs[idx]
            b == InputBaseline(idx)
            v == Clamp(RMul(b, NotedInjuryMultiplier(leg)))
        IN  /\ (pc = "historical" /\ InjuryReturned(leg)) =>
                 leg.adjusted_probability = v /\ leg.baseline_probability = v
            /\ (pc = "historical" /\ ~InjuryReturned(leg)) =>
                 leg.adjusted_probability = b /\ leg.baseline_probability = b
            /\ (pc = "market" /\ InjuryReturned(leg) /\ HistoricalReturned(leg)) =>
                 /\ leg.adjusted_probability =
                      Clamp(RMul(v, NotedHistoricalMultiplier(leg)))
                 /\ leg.baseline_probability = leg.adjusted_probability
            /\ (pc = "market" /\ ~InjuryReturned(leg) /\ HistoricalReturned(leg)) =>
                 /\ leg.adjusted_probability =
                      Clamp(RMul(b, NotedHistoricalMultiplier(leg)))
                 /\ leg.baseline_probability = leg.adjusted_probability
            /\ (pc = "market" /\ ~InjuryReturned(leg) /\ ~HistoricalReturned(leg)) =>
                 leg.adjusted_probability = b

(* C14 witness: both adjusters returned a value for the leg, and the    *)
(* result is not what the historical multiplier makes of the original   *)
(* baseline                                                             *)
C14_Witness ==
    /\ evals = 0 /\ pc = "market"
    /\ InjuryReturned(legs[idx]) /\ HistoricalReturned(legs[idx])
    /\ legs[idx].adjusted_probability #
         Clamp(RMul(InputBaseline(idx), NotedHistoricalMultiplier(legs[idx])))

(* a direct adjuster call has just been logged *)
AdjusterCalled == Len(trace') = Len(trace) + 1

(* rows of the feed that are Out or Doubtful and satisfy a test *)
RowsOut(feed, Test(_)) ==
    SelectSeq(feed, LAMBDA r : r.Status \in {"Out", "Doubtful"} /\ Test(r))

(* C15: whenever an adjuster returns None the leg is untouched (notes,  *)
(* baseline_probability, adjusted_probability as before the call):      *)
(* with an unset baseline, with +0.05 and -0.05 contributions that      *)
(* cancel, with a historical multiplier in the dead zone and with a     *)
(* zero-game record; and no adjuster call writes baseline_probability   *)
(* or adjusted_probability.                                             *)
C15_NoneLeavesLegUntouched ==
    [][ AdjusterCalled =>
        LET call == trace'[Len(trace')]
            leg == legs[1]
            feed == injury_adjuster[1]
            rec == h2h_cache[1].value
            boosts == RowsOut(feed, LAMBDA r : r.Position \in KEY_DEFENSIVE_POSITIONS
                                               /\ leg.player[2] # r.Team)
            cuts == RowsOut(feed, LAMBDA r : r.Position \in OFFENSIVE_SKILL_POSITIONS
                                             /\ leg.player[2] = r.Team)
        IN  /\ call[2] = None => legs' = legs
            /\ legs'[1].baseline_probability = leg.baseline_probability
            /\ legs'[1].adjusted_probability = leg.adjusted_probability
            /\ leg.baseline_probability = None => call[2] = None
            /\ (call[1] = "injury" /\ call[3] = NoTeam /\ leg.player # None
                  /\ Len(boosts) = Len(cuts)) => call[2] = None
            /\ (call[1] = "historical" /\ RecSum(rec, 1) = 0) => call[2] = None
            /\ (call[1] = "historical" /\ rec = H2HRecord("KC", 5, "BUF", 5)) =>
                 call[2] = None
      ]_vars

(* C15 witness: a leg with a baseline and a player, scanned against a   *)
(* feed with one missing opposing defender and one teammate out: the    *)
(* contributions cancelled and None was returned                        *)
C15_Witness ==
    /\ Len(trace) > 0
    /\ trace[Len(trace)] = <<"injury", None, NoTeam>>
    /\ legs[1].baseline_probability # None /\ legs[1].player # None
    /\ Len(injury_adjuster[1]) = 2
    /\ \E k \in 1..2 : /\ injury_adjuster[1][k].Team # legs[1].player[2]
                       /\ injury_adjuster[1][k].Status = "Out"
                       /\ injury_adjuster[1][k].Position \in KEY_DEFENSIVE_POSITIONS
    /\ \E k \in 1..2 : /\ injury_adjuster[1][k].Team = legs[1].player[2]
                       /\ injury_adjuster[1][k].Status = "Out"
                       /\ injury_adjuster[1][k].Position \in OFFENSIVE_SKILL_POSITIONS

(* C16: the market-price step never changes a leg's probabilities:      *)
(* whatever the provider returns or raises, the step appends at most    *)
(* one "Best price available" note to its leg and changes nothing else  *)
(* on any leg.                                                          *)
C16_MarketOnlyAnnotates ==
    [][ pc = "market" =>
        /\ Len(legs') = Len(legs)
        /\ \A i \in LegIds \ {idx} : legs'[i] = legs[i]
        /\ legs'[idx] = [legs[idx] EXCEPT !.notes = legs'[idx].notes]
        /\ legs'[idx].baseline_probability = legs[idx].baseline_probability
        /\ legs'[idx].adjusted_probability = legs[idx].adjusted_probability
        /\ \/ legs'[idx].notes = legs[idx].notes
           \/ /\ Len(legs'[idx].notes) = Len(legs[idx].notes) + 1
              /\ IsPrefix(legs[idx].notes, legs'[idx].notes)
              /\ legs'[idx].notes[Len(legs'[idx].notes)].kind = "Best price available"
        /\ ~RunsMarket(legs[idx]) => legs'[idx].notes = legs[idx].notes
      ]_vars

(* C16 witness: the market step has just annotated a leg that both      *)
(* adjusters had adjusted                                               *)
C16_Witness ==
    /\ Len(trace) > 0 /\ trace[Len(trace)][1] = "market"
    /\ LET leg == legs[trace[Len(trace)][2]]
       IN  /\ Len(leg.notes) >= 5
           /\ leg.notes[Len(leg.notes)].kind = "Best price available"
           /\ InjuryReturned(leg) /\ HistoricalReturned(leg)

(* the part of a leg's value score that comes from its notes *)
Qualitative(scores) ==
    RAdd(RMul(scores.injury, Rat(2, 10)),
         RAdd(RMul(scores.history, Rat(15, 100)), RMul(scores.market, Rat(15, 100))))

(* C17: for every leg the qualitative part of its value score,          *)
(* 0.2*injury + 0.15*history + 0.15*market as _score_leg derives them   *)
(* from the notes, lies within [-0.5, +0.5].                            *)
C17_QualitativeBounded ==
    outcome = "returned" =>
        \A i \in LegIds :
            /\ RLe(Rat(-1, 2), Qualitative(result[1].leg_breakdown[i]))
            /\ RLe(Qualitative(result[1].leg_breakdown[i]), Rat(1, 2))

(* the last call was GeminiAdvisor.evaluate in the given mode *)
GeminiReturned(mode) ==
    /\ outcome = "returned"
    /\ Len(trace) > 0 /\ trace[Len(trace)] = <<"gemini", mode>>

(* C18: GeminiAdvisor.evaluate returns the overall_value_score,         *)
(* verdict, expected_value, combined_probability and leg_breakdown that *)
(* HeuristicAIAdvisor.evaluate returns on the same parlay, whether the  *)
(* API key is missing, the model call succeeds or it fails.             *)
C18_GeminiSameScores ==
    \A mode \in GeminiModes :
        GeminiReturned(mode) =>
            LET h == advisor_evaluate(legs, stake)[1]
                g == result[1]
            IN  /\ g.overall_value_score = h.overall_value_score
                /\ g.verdict = h.verdict
                /\ g.expected_value = h.expected_value
                /\ g.combined_probability = h.combined_probability
                /\ g.leg_breakdown = h.leg_breakdown

(* C18 witness: the model call failed on a parlay with an unset         *)
(* adjusted probability and a High Risk score                           *)
C18_Witness ==
    /\ GeminiReturned("model_failed")
    /\ result[1].expected_value = None
    /\ result[1].verdict = "High Risk"

(* leg i as the first of two evaluations left its notes *)
FirstPass(i) == [legs[i] EXCEPT !.notes = SubSeq(legs[i].notes, 1, marks[i])]

(* the notes the second evaluation appended to leg i *)
SecondPassNotes(i) == SubSeq(legs[i].notes, marks[i] + 1, Len(legs[i].notes))

(* the second evaluation saw the provider data of the first: no new     *)
(* player directory, and the same market offer for every leg            *)
SameProviderData ==
    /\ calls.players <= 1 \/ player_directory = {}
    /\ \A i \in LegIds :
         CountNotes(SecondPassNotes(i), MARKET_KEYWORD_NOTES) =
         CountNotes(FirstPass(i).notes, MARKET_KEYWORD_NOTES)

(* one pass of the adjusters over probability p, as leg's first-pass notes record it *)
PassOver(p, leg) ==
    LET v == IF InjuryReturned(leg) THEN Clamp(RMul(p, NotedInjuryMultiplier(leg))) ELSE p
    IN  IF HistoricalReturned(leg) THEN Clamp(RMul(v, NotedHistoricalMultiplier(leg))) ELSE v

(* C19: a second evaluate on the same parlay with the same provider     *)
(* data re-runs each adjuster on the adjusted baseline: a leg whose     *)
(* first pass applied mi ends with clamp(clamp(b*mi)*mi), likewise for  *)
(* the historical multiplier, and every note of the first pass is       *)
(* appended a second time.                                              *)
C19_SecondPassCompounds ==
    (Returned /\ evals = 2 /\ SameProviderData) =>
        \A i \in LegIds :
            LET first == FirstPass(i)
                b == InputBaseline(i)
            IN  /\ SecondPassNotes(i) = first.notes
                /\ Len(legs[i].notes) = 2 * marks[i]
                /\ legs[i].adjusted_probability = PassOver(PassOver(b, first), first)
                /\ (InjuryReturned(first) /\ ~HistoricalReturned(first)) =>
                     legs[i].adjusted_probability =
                       Clamp(RMul(Clamp(RMul(b, NotedInjuryMultiplier(first))),
                                  NotedInjuryMultiplier(first)))
                /\ (~InjuryReturned(first) /\ HistoricalReturned(first)) =>
                     legs[i].adjusted_probability =
                       Clamp(RMul(Clamp(RMul(b, NotedHistoricalMultiplier(first))),
                                  NotedHistoricalMultiplier(first)))

(* C19 witness: after two evaluations with the same data a leg adjusted *)
(* by the injury adjuster alone carries its notes twice and a           *)
(* probability that differs from the first pass's                       *)
C19_Witness ==
    /\ Returned /\ evals = 2 /\ SameProviderData
    /\ \E i \in LegIds :
        /\ InjuryReturned(FirstPass(i)) /\ ~HistoricalReturned(FirstPass(i))
        /\ marks[i] >= 3 /\ Len(legs[i].notes) = 2 * marks[i]
        /\ legs[i].adjusted_probability # PassOver(InputBaseline(i), FirstPass(i))

(* the step of evaluate in which the injury adjuster runs for legs[idx] *)
InjuryStep == pc = "injury" /\ pc' = "historical" /\ RunsInjury(legs[idx])

(* C20: for a leg whose player reference is unset the injury adjuster   *)
(* returns None and appends no notes, whatever the injury list and the  *)
(* opponent team, so the leg never receives an injury adjustment; and   *)
(* in evaluate, for a leg whose player's team differs from its          *)
(* opponent_team, the injury multiplier is never below 1.0.             *)
C20_PlayerlessLegUnadjusted ==
    [][ /\ (pc = "direct" /\ AdjusterCalled /\ trace'[Len(trace')][1] = "injury"
              /\ legs[1].player = None) =>
             /\ trace'[Len(trace')][2] = None
             /\ legs' = legs
        /\ (InjuryStep /\ legs[idx].player = None) =>
             /\ legs'[idx].notes = legs[idx].notes
             /\ legs'[idx].baseline_probability = default_baseline(legs[idx]).baseline_probability
             /\ legs[idx].adjusted_probability = None =>
                  legs'[idx].adjusted_probability = legs'[idx].baseline_probability
             /\ legs[idx].adjusted_probability # None =>
                  legs'[idx].adjusted_probability = legs[idx].adjusted_probability
        /\ (InjuryStep /\ legs[idx].player # None
              /\ legs[idx].player[2] # legs[idx].opponent_team) =>
             LET leg == default_baseline(legs[idx])
                 scan == InjuryScan(injury_adjuster[1], Len(injury_adjuster[1]),
                                    leg, leg.opponent_team)
                 added == SubSeq(legs'[idx].notes, Len(legs[idx].notes) + 1,
                                 Len(legs'[idx].notes))
             IN  /\ RLe(RInt(1), scan.m)
                 /\ \A k \in 1..Len(added) :
                      /\ added[k].kind # "teammate is out"
                      /\ added[k].kind = "Injury multiplier applied" => added[k].x >= 100
                 /\ RLe(RMin(leg.baseline_probability, Rat(99, 100)),
                        legs'[idx].adjusted_probability)
      ]_vars

(* C20 witness: a leg without a player reference was scanned, with no   *)
(* opponent filter, against a feed holding a missing defender and an    *)
(* offensive player out; nothing was returned and nothing noted         *)
C20_Witness ==
    /\ pc = "direct"
    /\ Len(trace) > 0 /\ trace[Len(trace)] = <<"injury", None, NoTeam>>
    /\ legs[1].player = None /\ legs[1].baseline_probability # None
    /\ legs[1].notes = <<>>
    /\ \E k \in 1..Len(injury_adjuster[1]) :
         /\ injury_adjuster[1][k].Status = "Out"
         /\ injury_adjuster[1][k].Position \in KEY_DEFENSIVE_POSITIONS
    /\ \E k \in 1..Len(injury_adjuster[1]) :
         /\ injury_adjuster[1][k].Status = "Out"
         /\ injury_adjuster[1][k].Position \in OFFENSIVE_SKILL_POSITIONS

(* ------------------------------------------------------------------ *)
(* C21: in every EvaluationResult returned by evaluate(), each leg's    *)
(* breakdown adjusted_prob equals that leg's adjusted_probability, and  *)
(* combined_probability is the product of the breakdown adjusted_prob   *)
(* values, for every supplied baseline_probability, 0.0 included        *)
(* ------------------------------------------------------------------ *)
RECURSIVE BreakdownProduct(_, _)
BreakdownProduct(breakdown, i) ==
    IF i > Len(breakdown) THEN RInt(1)
    ELSE RMul(breakdown[i].adjusted_prob, BreakdownProduct(breakdown, i + 1))

C21_BreakdownMatchesLeg ==
    Returned =>
        /\ \A i \in 1..Len(legs) :
             result[1].leg_breakdown[i].adjusted_prob = legs[i].adjusted_probability
        /\ result[1].combined_probability = BreakdownProduct(result[1].leg_breakdown, 1)

(* ------------------------------------------------------------------ *)
(* C22: with live data, one evaluator fetches the injury feed at most   *)
(* once over any sequence of evaluate() calls, also when that fetch     *)
(* raised (the failure is kept as an empty injury list and not          *)
(* retried); the player directory is fetched at the start of every      *)
(* evaluate() call for as long as the directory is empty, and at no     *)
(* other time                                                           *)
(* ------------------------------------------------------------------ *)
EvaluateEntered == pc = "idle" /\ pc' = "injury"

C22_FetchOnceDirectoryRetried ==
    /\ [](calls.injuries <= 1)
    /\ [][ /\ calls'.injuries =
                calls.injuries + (IF EvaluateEntered /\ use_live_data /\ injury_adjuster = None
                                  THEN 1 ELSE 0)
           /\ (calls'.injuries > calls.injuries /\ calls'.all_failed)
                  => injury_adjuster' = << <<>> >>
           /\ injury_adjuster # None => injury_adjuster' = injury_adjuster
           /\ calls'.players =
                calls.players + (IF EvaluateEntered /\ use_live_data /\ player_directory = {}
                                 THEN 1 ELSE 0) ]_vars

(* C22 witness: a second evaluate() has started after every fetch of the *)
(* first one raised; the directory was fetched twice, the injury feed    *)
(* once, and the empty injury list of the failure is still in place      *)
C22_Witness ==
    /\ use_live_data /\ evals = 1 /\ pc = "injury"
    /\ calls.all_failed
    /\ calls.players = 2 /\ calls.injuries = 1
    /\ player_directory = {}
    /\ injury_adjuster = << <<>> >>
====
